---- MODULE Spec2Model ----
(***************************************************************************)
(* Model of langchain_core/prompts/structured.py: StructuredPrompt, a chat *)
(* prompt template that carries an output schema and threads it into the   *)
(* next stage when it is composed with a language model.                   *)
(*                                                                         *)
(* A variable name is modelled by its rank in the lexicographic order of   *)
(* the names in use (1 < 2 < ... as "a" < "b" < ...), which is all that    *)
(* Python's sorted() reads of it.                                          *)
(***************************************************************************)
EXTENDS Integers, Sequences, FiniteSets, TLC

\* ------------------------------------------------------------------ bounds
MaxNames == 2
MaxTplVars == 1
MaxMsgs == 2
MaxOthers == 2

Names == 1..MaxNames

\* --------------------------------------------------------------- utilities
Range(s) == {s[i] : i \in 1..Len(s)}

SetMin(S) == CHOOSE x \in S : \A y \in S : x <= y

RECURSIVE sorted(_)
\* Python's sorted() of a set of names: ascending, one entry per element.
sorted(S) == IF S = {} THEN <<>> ELSE <<SetMin(S)>> \o sorted(S \ {SetMin(S)})

SeqsUpTo(S, n) == UNION {[1..k -> S] : k \in 0..n}

\* ------------------------------------------------ message representations
\* The text of a template, reduced to the placeholders it names, in the
\* order they appear ("{b} and {a} and {b}" is <<2, 1, 2>>).
TemplateTexts == SeqsUpTo(Names, MaxTplVars)

\* MessageLikeRepresentation: the shapes from_messages_and_schema accepts.
MessageLikeRepresentation ==
         [shape : {"str"}, template : TemplateTexts]
    \cup [shape : {"tuple"}, role : {"system"}, template : TemplateTexts]
    \cup [shape : {"MessagesPlaceholder"}, variable_name : Names, optional : BOOLEAN]
    \cup [shape : {"BaseMessage"}, role : {"ai"}]

\* Canonical forms held by the template.
MessagesPlaceholder(name, opt) ==
    [type |-> "MessagesPlaceholder", variable_name |-> name, optional |-> opt]

MessagePromptTemplate(role, text) ==
    [type |-> "MessagePromptTemplate", role |-> role,
     input_variables |-> sorted(Range(text))]

BaseMessage(role) == [type |-> "BaseMessage", role |-> role]

\* _convert_to_message: a bare string is a human message template, a
\* (role, template) pair a template of that role; prompt-template objects and
\* literal messages are kept as they are.
_convert_to_message(message) ==
    CASE message.shape = "str" -> MessagePromptTemplate("human", message.template)
      [] message.shape = "tuple" -> MessagePromptTemplate(message.role, message.template)
      [] message.shape = "MessagesPlaceholder" ->
             MessagesPlaceholder(message.variable_name, message.optional)
      [] message.shape = "BaseMessage" -> BaseMessage(message.role)

\* isinstance(_message, (BaseChatPromptTemplate, BaseMessagePromptTemplate))
IsPromptTemplate(m) == m.type \in {"MessagesPlaceholder", "MessagePromptTemplate"}

\* _message.input_variables
input_variables_of(m) ==
    IF m.type = "MessagesPlaceholder"
    THEN (IF m.optional THEN <<>> ELSE <<m.variable_name>>)
    ELSE m.input_variables

\* A partial mapping / keyword mapping with one more entry (d[k] = v).
SetItem(d, k, v) == [x \in DOMAIN d \cup {k} |-> IF x = k THEN v ELSE d[x]]

EmptyDict == [x \in {} |-> <<>>]

\* ------------------------------------------------------------ construction
\* The body of the loop over _messages: one message's effect on
\* (input_vars, partial_vars).
\* The same with the optional flag not consulted.
ScanMessageAnyPlaceholder(acc, m) ==
    IF m.type = "MessagesPlaceholder"
    THEN [acc EXCEPT !.partial_vars = SetItem(@, m.variable_name, <<>>)]
    ELSE IF IsPromptTemplate(m)
         THEN [acc EXCEPT !.input_vars = @ \cup Range(input_variables_of(m))]
         ELSE acc

ScanMessage(acc, m) ==
    IF m.type = "MessagesPlaceholder" /\ m.optional
    THEN [acc EXCEPT !.partial_vars = SetItem(@, m.variable_name, <<>>)]
    ELSE IF IsPromptTemplate(m)
         THEN [acc EXCEPT !.input_vars = @ \cup Range(input_variables_of(m))]
         ELSE acc

RECURSIVE ScanMessages(_, _, _)
ScanMessages(acc, msgs, i) ==
    IF i > Len(msgs) THEN acc
    ELSE ScanMessages(ScanMessage(acc, msgs[i]), msgs, i + 1)

InferVariables(msgs) ==
    ScanMessages([input_vars |-> {}, partial_vars |-> EmptyDict], msgs, 1)

\* cls(input_variables=..., messages=..., partial_variables=..., schema_=...,
\* structured_output_kwargs=...): the instance holds the values it is given.
StructuredPrompt(input_variables, _messages, partial_variables, schema_, kw) ==
    [input_variables |-> input_variables,
     messages |-> _messages,
     partial_variables |-> partial_variables,
     schema_ |-> schema_,
     structured_output_kwargs |-> kw]

RECURSIVE FirstSeen(_, _)
\* The required names in the order the scan first meets them.
FirstSeen(msgs, i) ==
    IF i = 0 THEN <<>>
    ELSE LET before == FirstSeen(msgs, i - 1)
             now == IF msgs[i].type = "MessagesPlaceholder" /\ msgs[i].optional
                    THEN <<>>
                    ELSE IF IsPromptTemplate(msgs[i])
                         THEN input_variables_of(msgs[i]) ELSE <<>>
         IN  before \o SelectSeq(now, LAMBDA n : n \notin Range(before))

\* The factory without the sort: list(input_vars) in first-seen order.
from_messages_unsorted(msgs, sch, kw) ==
    LET _messages == [i \in 1..Len(msgs) |-> _convert_to_message(msgs[i])]
        vars_ == InferVariables(_messages)
    IN  StructuredPrompt(FirstSeen(_messages, Len(_messages)), _messages,
                         vars_.partial_vars, sch, kw)

\* The factory with the keyword options not kept.
from_messages_kwargs_dropped(msgs, sch, kw) ==
    LET _messages == [i \in 1..Len(msgs) |-> _convert_to_message(msgs[i])]
        vars_ == InferVariables(_messages)
    IN  StructuredPrompt(sorted(vars_.input_vars), _messages, vars_.partial_vars,
                         sch, EmptyDict)

\* StructuredPrompt.from_messages_and_schema(messages, schema, **kwargs)
from_messages_and_schema(msgs, sch, kw) ==
    LET _messages == [i \in 1..Len(msgs) |-> _convert_to_message(msgs[i])]
        vars_ == InferVariables(_messages)
    IN  StructuredPrompt(sorted(vars_.input_vars), _messages, vars_.partial_vars,
                         sch, kw)

\* ---------------------------------------------------------------- consumers
\* The objects a prompt can be piped to.  chat_model: a language model that
\* binds schemas.  base_llm: a language model whose with_structured_output
\* is the base class's, which raises NotImplementedError.  duck_model /
\* duck_unsupported: no language model, but an object with a
\* with_structured_output attribute (binding, resp. raising
\* NotImplementedError).  duck_invalid: the same, rejecting the schema with a
\* ValueError.  runnable: a plain function or runnable, without the attribute.
Consumers ==
    {"chat_model", "base_llm", "duck_model", "duck_unsupported", "duck_invalid",
     "runnable"}

\* isinstance(other, BaseLanguageModel)
IsBaseLanguageModel(c) == c \in {"chat_model", "base_llm"}

\* hasattr(other, "with_structured_output")
HasWithStructuredOutput(c) == c # "runnable"

OutputSchemas == {"dict_schema", "OutputSchema"}

KwargKeys == {"method"}
KwargValues == {"json_mode", "function_calling"}
KwargMappings == UNION {[K -> KwargValues] : K \in SUBSET KwargKeys}

PipelineNames == {"None", "chain"}

\* Exceptions; e.cause is what "raise ... from e" attaches (__cause__).
NoException == [type |-> "None"]
Exception(t, msg, by, cause) ==
    [type |-> t, message |-> msg, raised_by |-> by, cause |-> cause]

MustBePiped ==
    "Structured prompts must be piped to a language model that implements with_structured_output."
NeedPiped == "Structured prompts need to be piped to a language model."

\* What a call does: it returns a value or raises; calls lists the
\* with_structured_output calls it made, in order.
Returned(v, cs) == [status |-> "returned", value |-> v, calls |-> cs]
Raised(e, cs) == [status |-> "raised", error |-> e, calls |-> cs]

Call(c, sch, kw) == [target |-> c, schema |-> sch, kwargs |-> kw]

\* other.with_structured_output(schema, **kwargs)
with_structured_output(c, sch, kw) ==
    CASE c \in {"chat_model", "duck_model"} ->
             Returned([stage |-> "structured", model |-> c, schema |-> sch, kwargs |-> kw],
                      <<Call(c, sch, kw)>>)
      [] c \in {"base_llm", "duck_unsupported"} ->
             Raised(Exception("NotImplementedError", "", c, NoException),
                    <<Call(c, sch, kw)>>)
      [] c = "duck_invalid" ->
             Raised(Exception("ValueError", "unsupported schema", c, NoException),
                    <<Call(c, sch, kw)>>)
      [] OTHER ->
             Raised(Exception("AttributeError", "with_structured_output", c, NoException),
                    <<>>)

PromptStage(self) == [stage |-> "StructuredPrompt", prompt |-> self]
RunnableStage(c) == [stage |-> "runnable", runnable |-> c]

\* RunnableSequence(*steps, name=name)
RunnableSequence(steps, name) ==
    [type |-> "RunnableSequence", steps |-> steps, name |-> name]

\* -------------------------------------------------------------- composition
\* __or__ without the except clause: the consumer's failure passes through.
or_unwrapped(self, other) ==
    IF IsBaseLanguageModel(other) \/ HasWithStructuredOutput(other)
    THEN LET r == with_structured_output(other, self.schema_,
                                         self.structured_output_kwargs)
         IN  IF r.status = "returned"
             THEN Returned(RunnableSequence(<<PromptStage(self), r.value>>, "None"),
                           r.calls)
             ELSE Raised(r.error, r.calls)
    ELSE Raised(Exception("NotImplementedError", MustBePiped, "StructuredPrompt",
                          NoException), <<>>)

\* StructuredPrompt.__or__(self, other)
__or__(self, other) ==
    IF IsBaseLanguageModel(other) \/ HasWithStructuredOutput(other)
    THEN LET r == with_structured_output(other, self.schema_,
                                         self.structured_output_kwargs)
         IN  IF r.status = "returned"
             THEN Returned(RunnableSequence(<<PromptStage(self), r.value>>, "None"),
                           r.calls)
             ELSE IF r.error.type = "NotImplementedError"
                  THEN Raised(Exception("NotImplementedError", MustBePiped,
                                        "StructuredPrompt", r.error), r.calls)
                  ELSE Raised(r.error, r.calls)
    ELSE Raised(Exception("NotImplementedError", MustBePiped, "StructuredPrompt",
                          NoException), <<>>)

\* The condition with the capability of the first consumer not probed.
PipeConditionUnprobed(others) ==
    IF Len(others) = 0 THEN "IndexError" ELSE "True"

\* The condition of pipe's if statement,
\*   others and isinstance(others[0], BaseLanguageModel)
\*       or hasattr(others[0], "with_structured_output"),
\* as Python evaluates it: (A and B) or C, C being evaluated whenever
\* (A and B) is false, also when others is empty.
PipeCondition(others) ==
    IF Len(others) > 0 /\ IsBaseLanguageModel(others[1])
    THEN "True"
    ELSE IF Len(others) = 0
         THEN "IndexError"
         ELSE IF HasWithStructuredOutput(others[1]) THEN "True" ELSE "False"

\* pipe without the remaining consumers (*others[1:] left out).
pipe_first_only(self, others, name) ==
    LET cond == PipeCondition(others) IN
    CASE cond = "IndexError" ->
             Raised(Exception("IndexError", "tuple index out of range", "interpreter",
                              NoException), <<>>)
      [] cond = "True" ->
             LET r == with_structured_output(others[1], self.schema_,
                                             self.structured_output_kwargs)
             IN  IF r.status = "returned"
                 THEN Returned(RunnableSequence(<<PromptStage(self), r.value>>, name),
                               r.calls)
                 ELSE Raised(r.error, r.calls)
      [] OTHER ->
             Raised(Exception("NotImplementedError", NeedPiped, "StructuredPrompt",
                              NoException), <<>>)

\* StructuredPrompt.pipe(self, *others, name=name)
pipe(self, others, name) ==
    LET cond == PipeCondition(others) IN
    CASE cond = "IndexError" ->
             Raised(Exception("IndexError", "tuple index out of range", "interpreter",
                              NoException), <<>>)
      [] cond = "True" ->
             LET r == with_structured_output(others[1], self.schema_,
                                             self.structured_output_kwargs)
             IN  IF r.status = "returned"
                 THEN Returned(RunnableSequence(
                                   <<PromptStage(self), r.value>>
                                   \o [i \in 1..(Len(others) - 1) |-> RunnableStage(others[i + 1])],
                                   name),
                               r.calls)
                 ELSE Raised(r.error, r.calls)
      [] OTHER ->
             Raised(Exception("NotImplementedError", NeedPiped, "StructuredPrompt",
                              NoException), <<>>)

\* --------------------------------------------------------------------- state
VARIABLES
    messages,   \* the message representations given to the factory
    schema,     \* the schema given to the factory
    kwargs,     \* the keyword options given to the factory
    prompt,     \* the StructuredPrompt, NoPrompt before it is built
    op,         \* the composition operation last performed, with its arguments
    outcome     \* what that operation returned or raised, and the calls it made

vars == <<messages, schema, kwargs, prompt, op, outcome>>

NoPrompt == [type |-> "None"]
NoOp == [name |-> "None"]
NoOutcome == [status |-> "None"]

MessageSeqs == SeqsUpTo(MessageLikeRepresentation, MaxMsgs)

\* The factory's inputs are chosen; nothing is built yet.
InitBuild ==
    /\ messages \in MessageSeqs
    /\ schema \in OutputSchemas
    /\ kwargs \in KwargMappings
    /\ prompt = NoPrompt
    /\ op = NoOp
    /\ outcome = NoOutcome

FromMessagesAndSchema ==
    /\ prompt = NoPrompt
    /\ prompt' = from_messages_and_schema(messages, schema, kwargs)
    /\ UNCHANGED <<messages, schema, kwargs, op, outcome>>

NextBuild == FromMessagesAndSchema

SpecBuild == InitBuild /\ [][NextBuild]_vars

\* The state after construction: a prompt built from at most one message.
Init ==
    /\ messages \in SeqsUpTo(MessageLikeRepresentation, 1)
    /\ schema \in OutputSchemas
    /\ kwargs \in KwargMappings
    /\ prompt = from_messages_and_schema(messages, schema, kwargs)
    /\ op = NoOp
    /\ outcome = NoOutcome

\* Both operations only read the prompt, so each is taken from the state the
\* factory left; one operation per run reaches every (prompt, operation) pair.
Or ==
    \E other \in Consumers :
        /\ prompt # NoPrompt
        /\ op = NoOp
        /\ op' = [name |-> "__or__", others |-> <<other>>, pipeline_name |-> "None"]
        /\ outcome' = __or__(prompt, other)
        /\ UNCHANGED <<messages, schema, kwargs, prompt>>

Pipe ==
    \E others \in SeqsUpTo(Consumers, MaxOthers), name \in PipelineNames :
        /\ prompt # NoPrompt
        /\ op = NoOp
        /\ op' = [name |-> "pipe", others |-> others, pipeline_name |-> name]
        /\ outcome' = pipe(prompt, others, name)
        /\ UNCHANGED <<messages, schema, kwargs, prompt>>

Next == Or \/ Pipe

Spec == Init /\ [][Next]_vars

\* ------------------------------------------------------------------- claims
Built == prompt # NoPrompt

\* Every name some message of the prompt uses as a placeholder.
PlaceholderNames ==
    UNION {IF prompt.messages[i].type = "MessagesPlaceholder"
           THEN {prompt.messages[i].variable_name}
           ELSE IF prompt.messages[i].type = "MessagePromptTemplate"
                THEN Range(prompt.messages[i].input_variables)
                ELSE {} : i \in 1..Len(prompt.messages)}

\* The names of the placeholders marked optional.
OptionalNames ==
    {prompt.messages[i].variable_name :
        i \in {j \in 1..Len(prompt.messages) :
                  /\ prompt.messages[j].type = "MessagesPlaceholder"
                  /\ prompt.messages[j].optional}}

StrictlyAscending(s) == \A i \in 1..(Len(s) - 1) : s[i] < s[i + 1]

\* C1: the required names of a built prompt are the placeholder names of its
\* messages without the names marked optional, in ascending order, each once.
C1_RequiredNames ==
    Built =>
        /\ StrictlyAscending(prompt.input_variables)
        /\ Range(prompt.input_variables) = PlaceholderNames \ OptionalNames

\* C2: no name is both a required name and a key of the partial mapping.
C2_Disjoint ==
    Built =>
        Range(prompt.input_variables) \cap DOMAIN prompt.partial_variables = {}

\* C9: the keys of the partial mapping are exactly the names of the optional
\* placeholders, each mapped to the empty sequence; without an optional
\* placeholder the mapping is empty.
C9_PartialMapping ==
    Built =>
        /\ DOMAIN prompt.partial_variables = OptionalNames
        /\ \A k \in DOMAIN prompt.partial_variables : prompt.partial_variables[k] = <<>>
        /\ (\A i \in 1..Len(prompt.messages) :
               ~(prompt.messages[i].type = "MessagesPlaceholder"
                 /\ prompt.messages[i].optional))
           => prompt.partial_variables = EmptyDict

\* A prompt with an optional placeholder, and a non-optional placeholder of
\* another name that stays out of the partial mapping.
C9_Witness ==
    /\ Built
    /\ Len(prompt.messages) = 2
    /\ prompt.messages[1] = MessagesPlaceholder(1, TRUE)
    /\ prompt.messages[2] = MessagesPlaceholder(2, FALSE)
    /\ DOMAIN prompt.partial_variables = {1}

Reorderings(n) == {p \in [1..n -> 1..n] : \A i, j \in 1..n : p[i] = p[j] => i = j}

\* C10: the normalized messages are the conversions of the given messages,
\* in the given order, and every reordering of the given messages yields
\* the same required names.
C10_OrderIndependent ==
    Built =>
        /\ Len(prompt.messages) = Len(messages)
        /\ \A i \in 1..Len(messages) :
               prompt.messages[i] = _convert_to_message(messages[i])
        /\ \A p \in Reorderings(Len(messages)) :
               from_messages_and_schema([i \in 1..Len(messages) |-> messages[p[i]]],
                                        schema, kwargs).input_variables
                   = prompt.input_variables

\* Two different messages, the later-sorted name first.
C10_Witness ==
    /\ Built
    /\ Len(messages) = 2
    /\ messages[1] = [shape |-> "str", template |-> <<2>>]
    /\ messages[2] = [shape |-> "MessagesPlaceholder", variable_name |-> 1,
                      optional |-> FALSE]
    /\ prompt.input_variables = <<1, 2>>
    /\ prompt.messages[1].type = "MessagePromptTemplate"

Composed(name) == op.name = name

\* The first consumer's schema binding reports that it is unsupported.
BindingUnsupported(c) ==
    LET r == with_structured_output(c, prompt.schema_, prompt.structured_output_kwargs)
    IN  r.status = "raised" /\ r.error.type = "NotImplementedError"

\* The explicit error of this component, carrying the consumer's failure.
WrappedUnsupported(c) ==
    /\ outcome.status = "raised"
    /\ outcome.error.type = "NotImplementedError"
    /\ outcome.error.raised_by = "StructuredPrompt"
    /\ outcome.error.cause.type = "NotImplementedError"
    /\ outcome.error.cause.raised_by = c

\* C3: pipe without consumers raises NotImplementedError.
C3_PipeNoConsumers ==
    (Composed("pipe") /\ op.others = <<>>) =>
        /\ outcome.status = "raised"
        /\ outcome.error.type = "NotImplementedError"

\* C4: in __or__ and in pipe, a consumer whose binding reports non-support
\* gives this component's NotImplementedError with the consumer's as cause.
C4_AlwaysWrapped ==
    (/\ op.name \in {"__or__", "pipe"}
     /\ Len(op.others) > 0
     /\ HasWithStructuredOutput(op.others[1])
     /\ BindingUnsupported(op.others[1]))
        => WrappedUnsupported(op.others[1])

\* C5: __or__ on a consumer whose binding raises NotImplementedError raises
\* the "must be piped" NotImplementedError from it and returns no pipeline.
C5_OrWraps ==
    (Composed("__or__") /\ BindingUnsupported(op.others[1])
        /\ HasWithStructuredOutput(op.others[1]))
        => /\ WrappedUnsupported(op.others[1])
           /\ outcome.error.message = MustBePiped
           /\ outcome.error.cause
                  = Exception("NotImplementedError", "", op.others[1], NoException)

C5_Witness ==
    /\ Composed("__or__")
    /\ op.others = <<"base_llm">>
    /\ outcome.status = "raised"
    /\ outcome.calls = <<Call("base_llm", schema, kwargs)>>

\* C6: a first consumer that is no language model and has no
\* with_structured_output makes __or__ and pipe raise this component's
\* NotImplementedError, nothing being called on the consumer.
C6_Incapable ==
    (/\ op.name \in {"__or__", "pipe"}
     /\ Len(op.others) > 0
     /\ ~IsBaseLanguageModel(op.others[1])
     /\ ~HasWithStructuredOutput(op.others[1]))
        => /\ outcome.status = "raised"
           /\ outcome.error.type = "NotImplementedError"
           /\ outcome.error.raised_by = "StructuredPrompt"
           /\ outcome.calls = <<>>

C6_Witness ==
    /\ Composed("pipe")
    /\ op.others = <<"runnable", "chat_model">>
    /\ outcome.status = "raised"
    /\ outcome.error.message = NeedPiped

\* The schema-aware version of consumer c under the prompt's schema and options.
Structured(c) ==
    [stage |-> "structured", model |-> c, schema |-> prompt.schema_,
     kwargs |-> prompt.structured_output_kwargs]

\* C7: a pipe that returns has bound its first consumer, once, and nothing
\* else; the pipeline is the prompt, the bound first consumer and the other
\* consumers as given, in order, under the given name.
C7_PipeStages ==
    (Composed("pipe") /\ outcome.status = "returned") =>
        /\ Len(op.others) >= 1
        /\ outcome.calls
               = <<Call(op.others[1], prompt.schema_, prompt.structured_output_kwargs)>>
        /\ outcome.value.type = "RunnableSequence"
        /\ Len(outcome.value.steps) = Len(op.others) + 1
        /\ outcome.value.steps[1] = PromptStage(prompt)
        /\ outcome.value.steps[2] = Structured(op.others[1])
        /\ \A i \in 2..Len(op.others) :
               outcome.value.steps[i + 1] = RunnableStage(op.others[i])
        /\ outcome.value.name = op.pipeline_name

C7_Witness ==
    /\ Composed("pipe")
    /\ op.others = <<"duck_model", "chat_model">>
    /\ op.pipeline_name = "chain"
    /\ outcome.status = "returned"
    /\ Len(outcome.value.steps) = 3

\* C8: the prompt holds the schema and the options it was given, every
\* binding call receives exactly these, and __or__ returns the two-stage
\* pipeline of the prompt and the schema-aware consumer.
C8_Forwarded ==
    /\ Built => /\ prompt.schema_ = schema
                /\ prompt.structured_output_kwargs = kwargs
    /\ outcome # NoOutcome =>
           \A i \in 1..Len(outcome.calls) :
               /\ outcome.calls[i].schema = schema
               /\ outcome.calls[i].kwargs = kwargs
    /\ (Composed("__or__") /\ outcome.status = "returned") =>
           /\ outcome.calls = <<Call(op.others[1], schema, kwargs)>>
           /\ outcome.value
                  = RunnableSequence(
                        <<PromptStage(prompt),
                          [stage |-> "structured", model |-> op.others[1],
                           schema |-> schema, kwargs |-> kwargs]>>, "None")

C8_Witness ==
    /\ Composed("__or__")
    /\ op.others = <<"chat_model">>
    /\ outcome.status = "returned"
    /\ schema = "OutputSchema"
    /\ kwargs = [k \in {"method"} |-> "json_mode"]
    /\ Len(outcome.calls) = 1

====
